---- MODULE Spec2Model ----
(***************************************************************************)
(* IMDb review sentiment analyzer: one run of the request flow of          *)
(* src/app.py main() -- search, select, fetch_reviews (fresh lookup +      *)
(* browser extraction), score, aggregate -- as a state machine.            *)
(*                                                                         *)
(* Strings whose characters matter (button labels, review texts, tokens)   *)
(* are sequences of one-character strings.  Polarities are fixed-point     *)
(* integers in units of 1/(100 * Unit), Unit = lcm(1..MaxReviews), so that *)
(* the mean of up to MaxReviews two-decimal polarities is exact; floating  *)
(* point rounding of the mean is not modelled.                             *)
(*                                                                         *)
(* The external world (what the movie database answers, what the review    *)
(* page holds, what the NLTK resources and the TextBlob scorer map a word  *)
(* or a text to) is drawn in Init and never changes during the run.        *)
(* Failures of the external calls are chosen when the call is made.        *)
(* The st.cache_data memo tables start empty and one script run is         *)
(* modelled, so every cached wrapper calls through.                        *)
(***************************************************************************)
EXTENDS Integers, Sequences, FiniteSets, TLC

\* ------------------------------------------------------------ bounds
MaxResults == 12
MaxElems == 3
MaxReviews == 4
MaxTextLen == 3

\* ------------------------------------------------- program constants
MaxCandidates == 10
TopN == 3
BucketThreshold == 5
EmojiThreshold == 30
waiting_timeout == 80
ShortDwell == 30
ScrollPause == 5

\* ------------------------------------------------------------ helpers
Min(a, b) == IF a < b THEN a ELSE b

Range(s) == {s[k] : k \in DOMAIN s}

RECURSIVE Gcd(_, _)
Gcd(a, b) == IF b = 0 THEN a ELSE Gcd(b, a % b)

RECURSIVE LcmUpTo(_)
LcmUpTo(n) == IF n <= 1 THEN 1 ELSE (LcmUpTo(n - 1) * n) \div Gcd(LcmUpTo(n - 1), n)

\* Fixed-point units per hundredth of polarity: every mean of up to MaxRows
\* two-decimal polarities is a whole number of units.
MaxRows == IF MaxElems > MaxReviews THEN MaxElems ELSE MaxReviews

Unit == LcmUpTo(MaxRows)

RECURSIVE SumSeq(_)
SumSeq(s) == IF s = <<>> THEN 0 ELSE Head(s) + SumSeq(Tail(s))

\* Optional values: None is the empty tuple, a present value x is <<x>>.
None == <<>>
Some(x) == <<x>>

\* ------------------------------------------------------- characters
Lower(c) == IF c = "N" THEN "n" ELSE IF c = "A" THEN "a" ELSE c

IsSpace(c) == c = " "

Punctuation == {"!", ".", ",", "'"}

\* \w of the regular expression: here every character that is neither
\* whitespace nor punctuation
IsWordChar(c) == ~IsSpace(c) /\ c \notin Punctuation

Str_lower(t) == [k \in 1..Len(t) |-> Lower(t[k])]

KeepWordOrSpace(c) == IsWordChar(c) \/ IsSpace(c)

\* re.sub(r'[^\w\s]', '', t)
RemovePunctuation(t) == SelectSeq(t, KeepWordOrSpace)

\* str.split(): tokens between runs of whitespace, no empty token
RECURSIVE SplitWs(_, _, _)
SplitWs(s, cur, acc) ==
    IF s = <<>>
    THEN (IF cur = <<>> THEN acc ELSE Append(acc, cur))
    ELSE IF IsSpace(Head(s))
         THEN SplitWs(Tail(s), <<>>, IF cur = <<>> THEN acc ELSE Append(acc, cur))
         ELSE SplitWs(Tail(s), Append(cur, Head(s)), acc)

Split(t) == SplitWs(t, <<>>, <<>>)

\* ' '.join(words)
RECURSIVE Join(_)
Join(ws) ==
    IF ws = <<>> THEN <<>>
    ELSE IF Len(ws) = 1 THEN ws[1]
    ELSE ws[1] \o <<" ">> \o Join(Tail(ws))

\* str.strip(), as get_text(strip=True) applies it to a div's one text node
RECURSIVE LStrip(_)
LStrip(t) == IF t # <<>> /\ IsSpace(Head(t)) THEN LStrip(Tail(t)) ELSE t

RECURSIVE RStrip(_)
RStrip(t) ==
    IF t # <<>> /\ IsSpace(t[Len(t)]) THEN RStrip(SubSeq(t, 1, Len(t) - 1)) ELSE t

Strip(t) == RStrip(LStrip(t))

\* needle in hay (Python substring test)
Contains(hay, needle) ==
    \E k \in 1..(Len(hay) - Len(needle) + 1) :
        SubSeq(hay, k, k + Len(needle) - 1) = needle

AllText == <<"A", "l", "l">>

\* ------------------------------------------------------------- state
VARIABLES
    \* the external world, fixed during a run
    movie_query,        \* text typed into st.text_input
    lookup,             \* ia.search_movie: name -> list of movies
    buttons,            \* labels of the "ipc-see-more" buttons, document order
    elements,           \* the review page's divs once fully loaded
    stop_words,         \* Preprocessor.stop_words
    lemmatizer,         \* WordNetLemmatizer.lemmatize as a word -> lemma table
    polarityOf,         \* TextBlob(x).sentiment.polarity per normalized text
    \* main()
    pc,
    returned,           \* Some(value returned by get_movie_candidates), None before
    candidates,
    selection_label,
    selected_movie_title,
    raw_reviews,
    df,
    avg_polarity,
    overall_sentiment,
    sentiment_counts,
    top_positive,
    top_negative,
    outcome,
    \* fetch_reviews / extract_imdb_reviews
    url,
    session,            \* "none" | "open" | "closed"
    quitCalls,
    all_buttons,
    btn,                \* position of the for loop over all_buttons
    all_button_clicked,
    clicked,            \* indices of the buttons whose click script ran
    sleeps,             \* time.sleep calls of the extraction, tenths of a second
    html,
    reviews,
    fallbackQueries,    \* number of find_all calls with the fallback selector
    exc,                \* exception in flight ("none" when there is none)
    caught,             \* failures swallowed by the except clause of line 52
    fetchCalls          \* number of calls of fetch_reviews

env == <<movie_query, lookup, buttons, elements, stop_words, lemmatizer, polarityOf>>

mainVars == <<returned, candidates, selection_label, selected_movie_title, raw_reviews,
              df, avg_polarity, overall_sentiment, sentiment_counts, top_positive,
              top_negative, outcome>>

scrapVars == <<url, session, quitCalls, all_buttons, btn, all_button_clicked, clicked,
               sleeps, html, reviews, fallbackQueries, exc, caught, fetchCalls>>

vars == <<env, pc, mainVars, scrapVars>>

\* ------------------------------------------------- Preprocessor.py
NotStopWord(w) == w \notin stop_words

Lemmatize(w) == IF w \in DOMAIN lemmatizer THEN lemmatizer[w] ELSE w

RemoveStopwords(t) == Join(SelectSeq(Split(t), NotStopWord))

LemmatizeWords(t) == Join([k \in 1..Len(Split(t)) |-> Lemmatize(Split(t)[k])])

\* preprocess_reviews on one text
preprocess_reviews(t) ==
    LemmatizeWords(RemoveStopwords(RemovePunctuation(Str_lower(t))))

\* ------------------------------------------------ the external world
Query == "alien"

Titles == {"Alien", "Solaris"}

Names == {Query} \cup Titles

TitleOf(i) == IF i % 3 = 0 THEN "Solaris" ELSE "Alien"

YearOf(i) == IF i % 2 = 0 THEN None ELSE Some(1978 + i)

Movie(i) == [movieID |-> i, title |-> TitleOf(i), year |-> YearOf(i)]

Catalog == [i \in 1..MaxResults |-> Movie(i)]

\* every contiguous run of the catalogue, the empty one included
RichResults ==
    {SubSeq(Catalog, a, b) : a \in 1..MaxResults, b \in 1..MaxResults} \cup {<<>>}

SmallResults == {<<>>, <<Movie(1)>>, <<Movie(2), Movie(3), Movie(1)>>}

\* "Alien" is found under its title, "Solaris" is not
UsualLookup ==
    [n \in Names |-> IF n = "Solaris" THEN <<>> ELSE <<Movie(2), Movie(3), Movie(1)>>]

BaseLookups == {[n \in Names |-> <<>>], UsualLookup}

Primary == <<"ipc-html-content-inner-div">>
Legacy == <<"text", "show-more__control">>
Reordered == <<"show-more__control", "text">>

ClassAttrs == {Primary, Legacy, Reordered}

\* text node of the i-th div: padded, as markup is
ElemText(i) == <<" ">> \o [k \in 1..i |-> "n"] \o <<" ">>

Div(c, t) == [class |-> c, text |-> t]

PagesUpTo(n, classes) ==
    UNION {{[i \in 1..k |-> Div(cs[i], ElemText(i))] : cs \in [1..k -> classes]} : k \in 0..n}

BasePages == {<<>>, <<Div(Primary, ElemText(1))>>, <<Div(Reordered, ElemText(1)), Div(Legacy, ElemText(2))>>}

Alphabet == {"i", "n", "s", "N", " ", "!"}

TextsUpTo(n) == UNION {[1..k -> Alphabet] : k \in 0..n}

More == <<"M", "o", "r", "e">>
LowerAll == <<"a", "l", "l">>
SeeAll == <<"S", "e", "e", " ", "A", "l", "l">>

BaseButtons == {<<>>, <<More, AllText>>}

RichButtons ==
    {<<>>, <<More>>, <<LowerAll>>, <<AllText>>, <<More, AllText>>, <<More, More>>,
     <<AllText, SeeAll>>, <<LowerAll, SeeAll, AllText>>}

In == <<"i", "n">>
Ins == <<"i", "n", "s">>
Is == <<"i", "s">>

NoLemmas == [w \in {} |-> w]
PluralLemmas == [w \in {Ins} |-> In]
ChainLemmas == [w \in {<<"n", "s", "s">>, <<"n", "s">>} |-> SubSeq(w, 1, Len(w) - 1)]

NltkLike == [stop |-> {In, Is}, lemmas |-> PluralLemmas]

NlpEnvs ==
    {[stop |-> s, lemmas |-> l] : s \in {{}, {In, Is}}, l \in {NoLemmas, PluralLemmas, ChainLemmas}}

PolarityLevels == {-6, -5, 5, 6}

BaseLevels == {-30, 6}

\* the normalized texts the scorer is asked about
ScoredTexts == {preprocess_reviews(Strip(elements[i].text)) : i \in DOMAIN elements}

Scorers(levels) ==
    {f \in [ScoredTexts -> {l * Unit : l \in levels \cup {0}}] :
        /\ <<>> \in ScoredTexts => f[<<>>] = 0
        /\ \A t \in ScoredTexts : t # <<>> => f[t] \in {l * Unit : l \in levels}}

ProgInit ==
    /\ pc = "start"
    /\ returned = None
    /\ candidates = <<>>
    /\ selection_label = None
    /\ selected_movie_title = None
    /\ raw_reviews = <<>>
    /\ df = <<>>
    /\ avg_polarity = 0
    /\ overall_sentiment = "-"
    /\ sentiment_counts = [b \in {"Positive", "Negative", "Neutral"} |-> 0]
    /\ top_positive = <<>>
    /\ top_negative = <<>>
    /\ outcome = "running"
    /\ url = None
    /\ session = "none"
    /\ quitCalls = 0
    /\ all_buttons = <<>>
    /\ btn = 0
    /\ all_button_clicked = FALSE
    /\ clicked = <<>>
    /\ sleeps = <<>>
    /\ html = <<>>
    /\ reviews = <<>>
    /\ fallbackQueries = 0
    /\ exc = "none"
    /\ caught = {}
    /\ fetchCalls = 0

World(queries, lookups, buttonLists, pages, nlps, levels) ==
    /\ movie_query \in queries
    /\ lookup \in lookups
    /\ buttons \in buttonLists
    /\ elements \in pages
    /\ \E nlp \in nlps : stop_words = nlp.stop /\ lemmatizer = nlp.lemmas
    /\ polarityOf \in Scorers(levels)

\* a world for every path of the flow, each component with few inputs
BaseWorld ==
    World({"", Query}, BaseLookups, BaseButtons, BasePages, {NltkLike}, {6})

\* the request flow: every answer of the movie database for every name
Init ==
    /\ World({"", Query}, [Names -> SmallResults], BaseButtons, BasePages, {NltkLike},
             BaseLevels)
    /\ ProgInit

\* the extractor: every page of up to MaxElems divs, several sets of buttons
InitExtract ==
    /\ \/ BaseWorld
       \/ World({Query}, {UsualLookup}, RichButtons, PagesUpTo(MaxElems, ClassAttrs),
                {NltkLike}, {6})
    /\ ProgInit

ResolveLookups ==
    {[n \in Names |-> IF n = Query THEN r ELSE t] :
        r \in RichResults, t \in {<<>>, <<Movie(2)>>}}

\* the resolver: every contiguous run of a catalogue of MaxResults movies
InitResolve ==
    /\ \/ BaseWorld
       \/ World({Query}, ResolveLookups, {<<>>}, BasePages, {NltkLike}, {6})
    /\ ProgInit

\* the scorer: up to MaxReviews reviews, every polarity level for each
InitScore ==
    /\ \/ BaseWorld
       \/ World({Query}, {UsualLookup}, {<<>>}, PagesUpTo(MaxReviews, {Primary}),
                {NltkLike}, PolarityLevels)
    /\ ProgInit

TextPages == {<<Div(Primary, t)>> : t \in TextsUpTo(MaxTextLen)}

\* the normalizer: one review, every text of up to MaxTextLen characters
InitNorm ==
    /\ \/ BaseWorld
       \/ World({Query}, {UsualLookup}, {<<>>}, TextPages, NlpEnvs, {6})
    /\ ProgInit

\* ------------------------------------------------------ FindMovie.py
\* search_movies returns the lookup's results (the [:10] there only prints)
search_movies(movie_name) == lookup[movie_name]

\* app.py get_movie_candidates: the cached wrapper, cache cold
get_movie_candidates(query) == search_movies(query)

\* the slice one element too long
Take_OneMore(s, n) == SubSeq(s, 1, Min(n + 1, Len(s)))

\* s[:n]
Take(s, n) == SubSeq(s, 1, Min(n, Len(s)))

ReviewsLink(movie_id) == <<"https://www.imdb.com/title/tt", movie_id, "/reviews">>

\* the last result of the lookup taken instead of the first
find_and_get_reviews_link_LastResult(movie_name) ==
    LET results == lookup[movie_name]
    IN  IF results # <<>> THEN Some(ReviewsLink(results[Len(results)].movieID)) ELSE None

find_and_get_reviews_link(movie_name) ==
    LET results == lookup[movie_name]
    IN  IF results # <<>> THEN Some(ReviewsLink(results[1].movieID)) ELSE None

\* --------------------------------------------------------- app.py
Label(m) == IF m.year # None THEN <<m.title, m.year[1]>> ELSE <<m.title>>

\* the options dict of main: a later candidate with the same label overwrites
Options(cands) ==
    [l \in {Label(cands[i]) : i \in DOMAIN cands} |->
        LET last == CHOOSE i \in DOMAIN cands :
                        /\ Label(cands[i]) = l
                        /\ \A j \in DOMAIN cands : Label(cands[j]) = l => j <= i
        IN  cands[last].title]

polarity_to_emoji(p) ==
    IF p > EmojiThreshold * Unit THEN "grin"
    ELSE IF p > BucketThreshold * Unit THEN "smile"
    ELSE IF p < -(EmojiThreshold * Unit) THEN "pensive"
    ELSE IF p < -(BucketThreshold * Unit) THEN "neutral_face"
    ELSE "expressionless"

\* the thresholds compared with >= and <=
polarity_bucket_Inclusive(p) ==
    IF p >= BucketThreshold * Unit THEN "Positive"
    ELSE IF p <= -(BucketThreshold * Unit) THEN "Negative"
    ELSE "Neutral"

polarity_bucket(p) ==
    IF p > BucketThreshold * Unit THEN "Positive"
    ELSE IF p < -(BucketThreshold * Unit) THEN "Negative"
    ELSE "Neutral"

\* ------------------------------------------------------- actions: main
\* line 104: nothing typed, the script run ends with the input shown
NoQuery ==
    /\ pc = "start"
    /\ movie_query = ""
    /\ pc' = "done"
    /\ outcome' = "idle"
    /\ UNCHANGED <<env, returned, candidates, selection_label, selected_movie_title,
                   raw_reviews, df, avg_polarity, overall_sentiment, sentiment_counts,
                   top_positive, top_negative, scrapVars>>

\* lines 104-110
Search ==
    /\ pc = "start"
    /\ movie_query # ""
    /\ returned' = Some(get_movie_candidates(movie_query))
    /\ candidates' = Take(returned'[1], MaxCandidates)
    /\ IF candidates' = <<>>
       THEN pc' = "done" /\ outcome' = "not_found"
       ELSE pc' = "select" /\ outcome' = outcome
    /\ UNCHANGED <<env, selection_label, selected_movie_title, raw_reviews, df,
                   avg_polarity, overall_sentiment, sentiment_counts, top_positive,
                   top_negative, scrapVars>>

\* line 106 when ia.search_movie raises
SearchFails ==
    /\ pc = "start"
    /\ movie_query # ""
    /\ exc' = "lookup"
    /\ pc' = "propagate"
    /\ UNCHANGED <<env, mainVars, url, session, quitCalls, all_buttons, btn,
                   all_button_clicked, clicked, sleeps, html, reviews, fallbackQueries,
                   caught, fetchCalls>>

\* lines 112-134: the user picks a label and presses the button
Select ==
    /\ pc = "select"
    /\ \E label \in DOMAIN Options(candidates) :
        /\ selection_label' = Some(label)
        /\ selected_movie_title' = Some(Options(candidates)[label])
    /\ pc' = "fetch"
    /\ UNCHANGED <<env, returned, candidates, raw_reviews, df, avg_polarity,
                   overall_sentiment, sentiment_counts, top_positive, top_negative,
                   outcome, scrapVars>>

\* line 134: the button was not pressed in this script run
NotPressed ==
    /\ pc = "select"
    /\ pc' = "done"
    /\ outcome' = "idle"
    /\ UNCHANGED <<env, returned, candidates, selection_label, selected_movie_title,
                   raw_reviews, df, avg_polarity, overall_sentiment, sentiment_counts,
                   top_positive, top_negative, scrapVars>>

\* line 143 -> fetch_reviews line 45
FindLink ==
    /\ pc = "fetch"
    /\ fetchCalls' = fetchCalls + 1
    /\ url' = find_and_get_reviews_link(selected_movie_title[1])
    /\ pc' = "chrome"
    /\ UNCHANGED <<env, mainVars, session, quitCalls, all_buttons, btn,
                   all_button_clicked, clicked, sleeps, html, reviews, fallbackQueries,
                   exc, caught>>

\* line 45 when ia.search_movie raises
FindLinkFails ==
    /\ pc = "fetch"
    /\ fetchCalls' = fetchCalls + 1
    /\ exc' = "lookup"
    /\ pc' = "propagate"
    /\ UNCHANGED <<env, mainVars, url, session, quitCalls, all_buttons, btn,
                   all_button_clicked, clicked, sleeps, html, reviews, fallbackQueries,
                   caught>>

\* the "if not raw_reviews" test of line 145 lost
CheckReviews_NoStop ==
    /\ pc = "check"
    /\ pc' = "score"
    /\ UNCHANGED <<env, mainVars, scrapVars>>

\* line 145-147
CheckReviews ==
    /\ pc = "check"
    /\ IF raw_reviews = <<>>
       THEN pc' = "done" /\ outcome' = "no_reviews"
       ELSE pc' = "score" /\ outcome' = outcome
    /\ UNCHANGED <<env, returned, candidates, selection_label, selected_movie_title,
                   raw_reviews, df, avg_polarity, overall_sentiment, sentiment_counts,
                   top_positive, top_negative, scrapVars>>

\* an exception nobody catches ends the script run with the exception shown
Uncaught ==
    /\ pc = "propagate"
    /\ pc' = "done"
    /\ outcome' = "exception"
    /\ UNCHANGED <<env, returned, candidates, selection_label, selected_movie_title,
                   raw_reviews, df, avg_polarity, overall_sentiment, sentiment_counts,
                   top_positive, top_negative, scrapVars>>

\* ------------------------------------------------------- Scrapper.py
\* BeautifulSoup find_all('div', {'class': sel}): a div matches when one of
\* its classes is sel, or when its whole class attribute is sel
MatchesClass(attr, sel) == (Len(sel) = 1 /\ sel[1] \in Range(attr)) \/ attr = sel

IsPrimary(e) == MatchesClass(e.class, Primary)

IsLegacy(e) == MatchesClass(e.class, Legacy)

\* [review.get_text(strip=True) for review in results]
Texts(results) == [k \in 1..Len(results) |-> Strip(results[k].text)]

\* the fallback selector queried without the "if not reviews" test
ExtractFrom_AlwaysFallback(page) ==
    Texts(SelectSeq(page, IsPrimary)) \o Texts(SelectSeq(page, IsLegacy))

\* lines 65-76: the list extract_imdb_reviews returns for a page source
ExtractFrom(page) ==
    LET main == Texts(SelectSeq(page, IsPrimary))
    IN  IF main = <<>> THEN main \o Texts(SelectSeq(page, IsLegacy)) ELSE main

\* line 32
OpenSession ==
    /\ pc = "chrome"
    /\ session' = "open"
    /\ pc' = "get"
    /\ UNCHANGED <<env, mainVars, url, quitCalls, all_buttons, btn, all_button_clicked,
                   clicked, sleeps, html, reviews, fallbackQueries, exc, caught,
                   fetchCalls>>

\* line 32 when the browser cannot be started: raised outside the try
OpenSessionFails ==
    /\ pc = "chrome"
    /\ exc' = "session"
    /\ pc' = "propagate"
    /\ UNCHANGED <<env, mainVars, url, session, quitCalls, all_buttons, btn,
                   all_button_clicked, clicked, sleeps, html, reviews, fallbackQueries,
                   caught, fetchCalls>>

\* lines 35-39
Navigate ==
    /\ pc = "get"
    /\ url # None
    /\ pc' = "find"
    /\ UNCHANGED <<env, mainVars, scrapVars>>

\* driver.get inside a try whose except clause passes
NavigateFails_Swallowed ==
    /\ pc = "get"
    /\ caught' = caught \cup {"get"}
    /\ pc' = "find"
    /\ UNCHANGED <<env, mainVars, url, session, quitCalls, all_buttons, btn,
                   all_button_clicked, clicked, sleeps, html, reviews, fallbackQueries,
                   exc, fetchCalls>>

\* line 35 when driver.get raises: the page cannot be loaded, or url is None
NavigateFails ==
    /\ pc = "get"
    /\ exc' = "navigation"
    /\ pc' = "finally"
    /\ UNCHANGED <<env, mainVars, url, session, quitCalls, all_buttons, btn,
                   all_button_clicked, clicked, sleeps, html, reviews, fallbackQueries,
                   caught, fetchCalls>>

\* line 44
FindButtons ==
    /\ pc = "find"
    /\ all_buttons' = buttons
    /\ btn' = 1
    /\ pc' = "loop"
    /\ UNCHANGED <<env, mainVars, url, session, quitCalls, all_button_clicked, clicked,
                   sleeps, html, reviews, fallbackQueries, exc, caught, fetchCalls>>

\* lines 44-53 when a webdriver call of the try block raises: except, pass
ExpandFails(at, what) ==
    /\ pc = at
    /\ caught' = caught \cup {what}
    /\ pc' = "dwell"
    /\ UNCHANGED <<env, mainVars, url, session, quitCalls, all_buttons, btn,
                   all_button_clicked, clicked, sleeps, html, reviews, fallbackQueries,
                   exc, fetchCalls>>

FindButtonsFails ==
    /\ pc = "find"
    /\ ExpandFails("find", "find_elements")

\* line 45: the for loop is exhausted
LoopEnd ==
    /\ pc = "loop"
    /\ btn > Len(all_buttons)
    /\ pc' = "dwell"
    /\ UNCHANGED <<env, mainVars, scrapVars>>

\* lines 45-46: a button without 'All' in its text
LoopSkip ==
    /\ pc = "loop"
    /\ btn <= Len(all_buttons)
    /\ ~Contains(all_buttons[btn], AllText)
    /\ btn' = btn + 1
    /\ UNCHANGED <<env, pc, mainVars, url, session, quitCalls, all_buttons,
                   all_button_clicked, clicked, sleeps, html, reviews, fallbackQueries,
                   exc, caught, fetchCalls>>

\* line 46 when button.text raises (the element went stale)
ButtonTextFails ==
    /\ pc = "loop"
    /\ btn <= Len(all_buttons)
    /\ ExpandFails("loop", "text")

\* lines 46-48
Scroll ==
    /\ pc = "loop"
    /\ btn <= Len(all_buttons)
    /\ Contains(all_buttons[btn], AllText)
    /\ sleeps' = Append(sleeps, ScrollPause)
    /\ pc' = "click"
    /\ UNCHANGED <<env, mainVars, url, session, quitCalls, all_buttons, btn,
                   all_button_clicked, clicked, html, reviews, fallbackQueries, exc,
                   caught, fetchCalls>>

\* line 47 when the scroll script raises
ScrollFails ==
    /\ pc = "loop"
    /\ btn <= Len(all_buttons)
    /\ Contains(all_buttons[btn], AllText)
    /\ ExpandFails("loop", "scroll")

\* lines 49-51
Click ==
    /\ pc = "click"
    /\ clicked' = Append(clicked, btn)
    /\ all_button_clicked' = TRUE
    /\ pc' = "dwell"
    /\ UNCHANGED <<env, mainVars, url, session, quitCalls, all_buttons, btn, sleeps,
                   html, reviews, fallbackQueries, exc, caught, fetchCalls>>

\* line 49 when the click script raises
ClickFails ==
    /\ pc = "click"
    /\ ExpandFails("click", "click")

\* the test of line 56 lost: the long wait whatever happened
Dwell_AlwaysLong ==
    /\ pc = "dwell"
    /\ sleeps' = Append(sleeps, waiting_timeout)
    /\ pc' = "source"
    /\ UNCHANGED <<env, mainVars, url, session, quitCalls, all_buttons, btn,
                   all_button_clicked, clicked, html, reviews, fallbackQueries, exc,
                   caught, fetchCalls>>

\* lines 56-59
Dwell ==
    /\ pc = "dwell"
    /\ sleeps' = Append(sleeps, IF all_button_clicked THEN waiting_timeout ELSE ShortDwell)
    /\ pc' = "source"
    /\ UNCHANGED <<env, mainVars, url, session, quitCalls, all_buttons, btn,
                   all_button_clicked, clicked, html, reviews, fallbackQueries, exc,
                   caught, fetchCalls>>

\* line 62: the divs loaded so far; all of them once the expansion ran
ReadPageSource ==
    /\ pc = "source"
    /\ \E k \in 0..Len(elements) :
        /\ all_button_clicked => k = Len(elements)
        /\ html' = SubSeq(elements, 1, k)
    /\ pc' = "parse"
    /\ UNCHANGED <<env, mainVars, url, session, quitCalls, all_buttons, btn,
                   all_button_clicked, clicked, sleeps, reviews, fallbackQueries, exc,
                   caught, fetchCalls>>

\* line 62 when driver.page_source raises
PageSourceFails ==
    /\ pc = "source"
    /\ exc' = "page_source"
    /\ pc' = "finally"
    /\ UNCHANGED <<env, mainVars, url, session, quitCalls, all_buttons, btn,
                   all_button_clicked, clicked, sleeps, html, reviews, fallbackQueries,
                   caught, fetchCalls>>

\* lines 63-76
ParseReviews ==
    /\ pc = "parse"
    /\ reviews' = ExtractFrom(html)
    /\ fallbackQueries' =
          IF Texts(SelectSeq(html, IsPrimary)) = <<>>
          THEN fallbackQueries + 1 ELSE fallbackQueries
    /\ pc' = "finally"
    /\ UNCHANGED <<env, mainVars, url, session, quitCalls, all_buttons, btn,
                   all_button_clicked, clicked, sleeps, html, exc, caught, fetchCalls>>

\* driver.quit() after the return statement instead of in a finally clause
Finally_QuitOnSuccessOnly ==
    /\ pc = "finally"
    /\ IF exc = "none"
       THEN /\ session' = "closed"
            /\ quitCalls' = quitCalls + 1
            /\ raw_reviews' = reviews
            /\ pc' = "check"
       ELSE /\ UNCHANGED <<session, quitCalls, raw_reviews>>
            /\ pc' = "propagate"
    /\ UNCHANGED <<env, returned, candidates, selection_label, selected_movie_title,
                   df, avg_polarity, overall_sentiment, sentiment_counts, top_positive,
                   top_negative, outcome, url, all_buttons, btn, all_button_clicked,
                   clicked, sleeps, html, reviews, fallbackQueries, exc, caught,
                   fetchCalls>>

\* lines 78-79, then the return to main line 143 or the exception going on
Finally ==
    /\ pc = "finally"
    /\ session' = "closed"
    /\ quitCalls' = quitCalls + 1
    /\ IF exc = "none"
       THEN raw_reviews' = reviews /\ pc' = "check"
       ELSE raw_reviews' = raw_reviews /\ pc' = "propagate"
    /\ UNCHANGED <<env, returned, candidates, selection_label, selected_movie_title,
                   df, avg_polarity, overall_sentiment, sentiment_counts, top_positive,
                   top_negative, outcome, url, all_buttons, btn, all_button_clicked,
                   clicked, sleeps, html, reviews, fallbackQueries, exc, caught,
                   fetchCalls>>

\* ------------------------------------------- scoring and aggregation
\* sentiment_pipeline and lines 153-154: one row per raw review
Row(raw) ==
    LET processed == preprocess_reviews(raw)
        polarity == polarityOf[processed]
    IN  [raw_reviews |-> raw, reviews |-> processed, polarity |-> polarity,
         sentiment |-> polarity_bucket(polarity), emoji |-> polarity_to_emoji(polarity)]

Polarities(frame) == [i \in 1..Len(frame) |-> frame[i].polarity]

\* Series.mean
Mean(values) == SumSeq(values) \div Len(values)

\* Series.value_counts, read with .get(bucket, 0)
ValueCounts(frame) ==
    [b \in {"Positive", "Negative", "Neutral"} |->
        Cardinality({i \in 1..Len(frame) : frame[i].sentiment = b})]

\* pandas SelectN for keep='first': the n smallest of arr, as row positions.
\* kth_smallest, the rows not above it, a stable sort of those, the first n.
KthSmallest(arr, n) ==
    CHOOSE v \in Range(arr) :
        /\ Cardinality({j \in DOMAIN arr : arr[j] < v}) < n
        /\ Cardinality({j \in DOMAIN arr : arr[j] <= v}) >= n

\* an unstable sort: a row goes before the rows of equal value
InsertStable_BeforeEquals(sorted, x, arr) ==
    LET after == {k \in 1..Len(sorted) : arr[sorted[k]] >= arr[x]}
        at == IF after = {} THEN Len(sorted) + 1
              ELSE CHOOSE k \in after : \A m \in after : k <= m
    IN  SubSeq(sorted, 1, at - 1) \o <<x>> \o SubSeq(sorted, at, Len(sorted))

\* where a stable sort puts row x among the rows already placed
InsertStable(sorted, x, arr) ==
    LET after == {k \in 1..Len(sorted) : arr[sorted[k]] > arr[x]}
        at == IF after = {} THEN Len(sorted) + 1
              ELSE CHOOSE k \in after : \A m \in after : k <= m
    IN  SubSeq(sorted, 1, at - 1) \o <<x>> \o SubSeq(sorted, at, Len(sorted))

RECURSIVE StableArgsort(_, _)
StableArgsort(ns, arr) ==
    IF ns = <<>> THEN <<>>
    ELSE InsertStable(StableArgsort(SubSeq(ns, 1, Len(ns) - 1), arr), ns[Len(ns)], arr)

NotAbove(arr, v) == SelectSeq([j \in 1..Len(arr) |-> j], LAMBDA j : arr[j] <= v)

SelectN(arr, nbase) ==
    LET n == Min(nbase, Len(arr))
    IN  IF n = 0 THEN <<>>
        ELSE Take(StableArgsort(NotAbove(arr, KthSmallest(arr, n)), arr), n)

\* df.nsmallest(n, 'polarity')
nsmallest(n, frame) == SelectN(Polarities(frame), n)

\* df.nlargest(n, 'polarity'): the same on the negated column
nlargest(n, frame) == SelectN([i \in 1..Len(frame) |-> -frame[i].polarity], n)

\* lines 152-154
SentimentPipeline ==
    /\ pc = "score"
    /\ df' = [i \in 1..Len(raw_reviews) |-> Row(raw_reviews[i])]
    /\ pc' = "aggregate"
    /\ UNCHANGED <<env, returned, candidates, selection_label, selected_movie_title,
                   raw_reviews, avg_polarity, overall_sentiment, sentiment_counts,
                   top_positive, top_negative, outcome, scrapVars>>

\* lines 163-166 and 180
Aggregate ==
    /\ pc = "aggregate"
    /\ avg_polarity' = Mean(Polarities(df))
    /\ overall_sentiment' = polarity_bucket(avg_polarity')
    /\ sentiment_counts' = ValueCounts(df)
    /\ pc' = "represent"
    /\ UNCHANGED <<env, returned, candidates, selection_label, selected_movie_title,
                   raw_reviews, df, top_positive, top_negative, outcome, scrapVars>>

\* lines 258 and 271: the rows shown, by position in df
Representative ==
    /\ pc = "represent"
    /\ top_positive' = nlargest(TopN, df)
    /\ top_negative' = nsmallest(TopN, df)
    /\ pc' = "done"
    /\ outcome' = "report"
    /\ UNCHANGED <<env, returned, candidates, selection_label, selected_movie_title,
                   raw_reviews, df, avg_polarity, overall_sentiment, sentiment_counts,
                   scrapVars>>

\* ---------------------------------------------------- specifications
Next ==
    \/ NoQuery
    \/ Search
    \/ SearchFails
    \/ Select
    \/ NotPressed
    \/ FindLink
    \/ FindLinkFails
    \/ OpenSession
    \/ OpenSessionFails
    \/ Navigate
    \/ NavigateFails
    \/ FindButtons
    \/ FindButtonsFails
    \/ LoopEnd
    \/ LoopSkip
    \/ ButtonTextFails
    \/ Scroll
    \/ ScrollFails
    \/ Click
    \/ ClickFails
    \/ Dwell
    \/ ReadPageSource
    \/ PageSourceFails
    \/ ParseReviews
    \/ Finally
    \/ CheckReviews
    \/ SentimentPipeline
    \/ Aggregate
    \/ Representative
    \/ Uncaught

Spec == Init /\ [][Next]_vars

SpecExtract == InitExtract /\ [][Next]_vars

SpecResolve == InitResolve /\ [][Next]_vars

SpecScore == InitScore /\ [][Next]_vars

SpecNorm == InitNorm /\ [][Next]_vars

\* ----------------------------------------------------------- claims
\* positions of main and of the extractor
AfterExtraction == pc \in {"check", "score", "aggregate", "represent", "propagate", "done"}

AfterDwell ==
    \/ pc \in {"source", "parse", "check", "score", "aggregate", "represent"}
    \/ pc = "finally" /\ exc = "none"
    \/ pc \in {"finally", "propagate", "done"} /\ exc = "page_source"
    \/ pc = "done" /\ outcome \in {"no_reviews", "report"}

\* the page source was read and parsed
Parsed ==
    \/ pc \in {"finally", "check", "score", "aggregate", "represent"} /\ exc = "none"
    \/ pc = "done" /\ outcome \in {"no_reviews", "report"}

Last(s) == s[Len(s)]

\* C1: once extract_imdb_reviews has returned or raised, a browser session
\* that was opened is closed and driver.quit ran exactly once, whichever
\* step failed; quit never runs twice and never without a session.
C1_SessionReleased ==
    /\ quitCalls <= 1
    /\ session = "closed" <=> quitCalls = 1
    /\ AfterExtraction => session # "open"
    /\ (pc = "done" /\ exc \in {"navigation", "page_source"}) => quitCalls = 1
    /\ pc \in {"check", "score", "aggregate", "represent"} => quitCalls = 1

\* C1 witness: driver.get failed and the exception left the extractor with
\* the session closed
C1_Witness ==
    pc = "propagate" /\ exc = "navigation" /\ session = "closed" /\ quitCalls = 1

\* C3: the list returned is the texts of the primary matches when there is
\* one, otherwise the texts of the fallback matches, in document order and
\* never both; the fallback selector is queried at most once and only when
\* the primary selector matched nothing; with no match at all the call
\* returns the empty list and raises nothing.
C3_Expected ==
    IF \E i \in DOMAIN html : IsPrimary(html[i])
    THEN Texts(SelectSeq(html, IsPrimary))
    ELSE Texts(SelectSeq(html, IsLegacy))

C3_PrimaryThenFallback ==
    /\ fallbackQueries <= 1
    /\ fallbackQueries = 1 => exc = "none"
    /\ Parsed =>
        /\ reviews = C3_Expected
        /\ fallbackQueries = 1 <=> ~(\E i \in DOMAIN html : IsPrimary(html[i]))
        /\ (\A i \in DOMAIN html : ~IsPrimary(html[i]) /\ ~IsLegacy(html[i])) => reviews = <<>>
        /\ pc # "finally" => raw_reviews = reviews

\* C3 witness: a page with fallback and primary divs was parsed, and one
\* with divs of neither class returned the empty list
C3_Witness ==
    /\ pc = "check"
    /\ \E i, j \in DOMAIN html : i < j /\ IsLegacy(html[i]) /\ IsPrimary(html[j])
    /\ Len(raw_reviews) < Len(html)

C3_WitnessEmpty ==
    pc = "check" /\ html # <<>> /\ raw_reviews = <<>> /\ fallbackQueries = 1

\* C4: before the expand step is over only the scroll pause is slept; then
\* exactly one dwell precedes the reading of the page source, the long one
\* iff a control was clicked; at most one control is clicked, the first
\* whose label contains "All"; without such a label the short dwell is
\* taken and the expand step raises nothing.
C4_HasAll == \E i \in DOMAIN buttons : Contains(buttons[i], AllText)

C4_FirstAll ==
    CHOOSE i \in DOMAIN buttons :
        /\ Contains(buttons[i], AllText)
        /\ \A j \in 1..(i - 1) : ~Contains(buttons[j], AllText)

C4_OneDwell ==
    /\ Len(clicked) <= 1
    /\ clicked # <<>> => C4_HasAll /\ clicked[1] = C4_FirstAll
    /\ all_button_clicked <=> clicked # <<>>
    /\ pc \in {"find", "loop", "click", "dwell"} =>
          /\ Len(sleeps) <= 1
          /\ \A k \in DOMAIN sleeps : sleeps[k] = ScrollPause
    /\ AfterDwell =>
          /\ sleeps # <<>>
          /\ Len(sleeps) <= 2
          /\ \A k \in 1..(Len(sleeps) - 1) : sleeps[k] = ScrollPause
          /\ Last(sleeps) = waiting_timeout <=> clicked # <<>>
          /\ Last(sleeps) = ShortDwell <=> clicked = <<>>
          /\ ~C4_HasAll => Last(sleeps) = ShortDwell /\ exc \in {"none", "page_source"}

\* C4 witness: the second of two "All" buttons was not clicked, the first
\* was, and the long dwell followed
C4_Witness ==
    /\ pc = "source"
    /\ clicked = <<1>>
    /\ Len(buttons) = 2
    /\ Contains(buttons[2], AllText)
    /\ sleeps = <<ScrollPause, waiting_timeout>>

C4_WitnessShort ==
    pc = "parse" /\ ~C4_HasAll /\ buttons # <<>> /\ sleeps = <<ShortDwell>>

\* C5 as stated: no failure of a browser call is swallowed, so an extraction
\* that returns normally met no failure.
C5_NothingSwallowed ==
    pc \in {"check", "score", "aggregate", "represent"} => caught = {}

\* C5 amended: a failure of driver.get or of page_source leaves the
\* extractor as an exception, after driver.quit, and no list is returned;
\* a failure while finding, reading, scrolling to or clicking the expand
\* control is caught: nothing is clicked, the short dwell follows and the
\* extraction goes on; nothing is attempted twice.
C5_PropagateExceptExpand ==
    /\ caught \subseteq {"find_elements", "text", "scroll", "click"}
    /\ Cardinality(caught) <= 1
    /\ caught # {} => clicked = <<>> /\ ~all_button_clicked
    /\ (caught # {} /\ AfterDwell) => Last(sleeps) = ShortDwell
    /\ exc \in {"navigation", "page_source"} =>
          /\ pc \in {"finally", "propagate", "done"}
          /\ raw_reviews = <<>>
          /\ reviews = <<>>
          /\ pc = "done" => outcome = "exception"
    /\ (pc = "done" /\ outcome \in {"no_reviews", "report"}) => exc = "none"
    /\ fallbackQueries <= 1
    /\ quitCalls <= 1

\* C5 witness: the click failed, and the extraction returned its list
C5_Witness ==
    pc = "check" /\ caught = {"click"} /\ raw_reviews # <<>>

C5_WitnessPropagated ==
    pc = "done" /\ exc = "page_source" /\ outcome = "exception" /\ caught = {"scroll"}

\* C2 as stated: a finished run reports "not found" for an empty candidate
\* list, "no reviews" for an empty extraction and the exception for a failed
\* lookup, browser start, navigation or page read; and when the fresh lookup
\* of find_and_get_reviews_link found nothing (the locator is None) the run
\* ends in "not found" or "no reviews", not in the exception.
C2_LocatorMissing == fetchCalls = 1 /\ url = None /\ exc # "lookup"

C2_ThreeOutcomes ==
    (pc = "done" /\ outcome # "idle") =>
        /\ (returned # None /\ candidates = <<>>) => outcome = "not_found"
        /\ (exc = "none" /\ quitCalls = 1 /\ raw_reviews = <<>>) => outcome = "no_reviews"
        /\ (exc # "none" /\ ~C2_LocatorMissing) => outcome = "exception"
        /\ (C2_LocatorMissing /\ exc = "navigation") =>
              outcome \in {"not_found", "no_reviews"}

\* C6 as stated: what get_movie_candidates returns has at most 10 movies and
\* is the first-10 prefix of the lookup's results.
C6_ResolverCapped ==
    returned # None =>
        /\ Len(returned[1]) <= MaxCandidates
        /\ returned[1] = SubSeq(lookup[movie_query], 1, Len(returned[1]))

\* C6 amended: get_movie_candidates returns all the results of the lookup,
\* in the lookup's order; the candidates main goes on with are their first
\* 10; a lookup without results gives the empty list and "not found", not
\* an exception.
C6_ResolverAllMainCaps ==
    returned # None =>
        /\ returned[1] = lookup[movie_query]
        /\ Len(candidates) = Min(MaxCandidates, Len(lookup[movie_query]))
        /\ \A i \in DOMAIN candidates : candidates[i] = lookup[movie_query][i]
        /\ lookup[movie_query] = <<>> =>
              candidates = <<>> /\ exc = "none" /\ outcome = "not_found"

\* C6 witness: the lookup answered more than 10 movies
C6_Witness ==
    /\ pc = "select"
    /\ Len(returned[1]) > MaxCandidates
    /\ Len(candidates) = MaxCandidates

\* C7: on the whole polarity axis, in hundredths, polarity_bucket gives
\* Positive above 0.05, Negative below -0.05 and Neutral between them, both
\* thresholds included in Neutral; every row's sentiment and the overall
\* sentiment of the mean follow that rule, and the three counts sum to the
\* number of reviews.
C7_Rule(p, b) ==
    /\ b \in {"Positive", "Negative", "Neutral"}
    /\ b = "Positive" <=> p > BucketThreshold * Unit
    /\ b = "Negative" <=> p < -(BucketThreshold * Unit)
    /\ b = "Neutral" <=> (p >= -(BucketThreshold * Unit) /\ p <= BucketThreshold * Unit)

C7_BucketPartition ==
    /\ \A h \in -100..100 : C7_Rule(h * Unit, polarity_bucket(h * Unit))
    /\ \A i \in DOMAIN df : C7_Rule(df[i].polarity, df[i].sentiment)
    /\ pc \in {"represent", "done"} /\ df # <<>> =>
          /\ avg_polarity * Len(df) = SumSeq(Polarities(df))
          /\ C7_Rule(avg_polarity, overall_sentiment)
          /\ sentiment_counts["Positive"] + sentiment_counts["Negative"]
                + sentiment_counts["Neutral"] = Len(df)
          /\ \A b \in DOMAIN sentiment_counts :
                sentiment_counts[b] = Cardinality({i \in DOMAIN df : df[i].sentiment = b})

\* C7 witness: reviews at both thresholds and beyond them were bucketed, and
\* their mean, not a whole number of hundredths, as well
C7_Witness ==
    /\ pc = "represent"
    /\ \E i, j, k \in DOMAIN df :
        /\ df[i].polarity = BucketThreshold * Unit /\ df[i].sentiment = "Neutral"
        /\ df[j].polarity = -(BucketThreshold * Unit) /\ df[j].sentiment = "Neutral"
        /\ df[k].sentiment = "Positive"
    /\ avg_polarity % Unit # 0
    /\ overall_sentiment = "Neutral"

\* C8: top_positive is the first min(3, n) rows in the order "higher
\* polarity first, among equals the earlier row first", top_negative the
\* same with "lower polarity first"; so neither is longer than 3 or than n,
\* and with one review both hold that review.
C8_Before(i, j, sign) ==
    \/ sign * df[i].polarity > sign * df[j].polarity
    \/ df[i].polarity = df[j].polarity /\ i < j

C8_IsTop(top, sign) ==
    /\ Len(top) = Min(TopN, Len(df))
    /\ \A k \in DOMAIN top :
        /\ top[k] \in DOMAIN df
        /\ Cardinality({j \in DOMAIN df : C8_Before(j, top[k], sign)}) = k - 1

C8_TopThree ==
    (pc = "done" /\ outcome = "report") =>
        /\ C8_IsTop(top_positive, 1)
        /\ C8_IsTop(top_negative, -1)
        /\ Len(top_positive) <= TopN /\ Len(top_positive) <= Len(df)
        /\ Len(top_negative) <= TopN /\ Len(top_negative) <= Len(df)
        /\ Len(df) = 1 => top_positive = <<1>> /\ top_negative = <<1>>

\* C8 witness: four reviews, the third and fourth place tied, so that the
\* tie decides who is shown
C8_Witness ==
    /\ pc = "done"
    /\ outcome = "report"
    /\ Len(df) = 4
    /\ df[1].polarity = df[3].polarity
    /\ df[2].polarity > df[1].polarity
    /\ df[4].polarity > df[2].polarity
    /\ top_positive = <<4, 2, 1>>
    /\ top_negative = <<1, 3, 2>>

\* C9 as stated: normalizing a normalized text changes nothing.
C9_NormalizerIdempotent ==
    \A i \in DOMAIN df : preprocess_reviews(df[i].reviews) = df[i].reviews

\* C10: scoring and aggregation are reached with a non-empty list only; an
\* empty list from fetch_reviews ends the run at "no reviews" with nothing
\* scored, and an empty candidate list ends it before fetch_reviews.
C10_ScoringNeedsReviews ==
    /\ pc \in {"score", "aggregate", "represent"} => raw_reviews # <<>>
    /\ outcome = "report" => raw_reviews # <<>> /\ Len(df) = Len(raw_reviews)
    /\ outcome = "no_reviews" =>
          /\ raw_reviews = <<>>
          /\ df = <<>> /\ top_positive = <<>> /\ top_negative = <<>>
          /\ overall_sentiment = "-"
    /\ (pc = "done" /\ quitCalls = 1 /\ exc = "none" /\ raw_reviews = <<>>) =>
          outcome = "no_reviews"
    /\ (returned # None /\ candidates = <<>>) =>
          /\ fetchCalls = 0
          /\ session = "none"
          /\ pc = "done" /\ outcome = "not_found"

\* C10 witness: the extraction returned nothing and the run stopped there
C10_Witness ==
    /\ pc = "done"
    /\ outcome = "no_reviews"
    /\ fetchCalls = 1
    /\ quitCalls = 1
    /\ df = <<>>

\* C11: once find_and_get_reviews_link has returned, the locator is None
\* when the lookup of the selected title has no result, and otherwise
\* https://www.imdb.com/title/tt<id>/reviews with the id of the first result
\* of that lookup; it is fixed by the title and the lookup alone, whichever
\* candidate of that title the user picked.
C11_LinkBuilt == fetchCalls = 1 /\ exc # "lookup"

C11_FirstOfFreshLookup ==
    /\ ~C11_LinkBuilt => url = None
    /\ C11_LinkBuilt =>
        LET fresh == lookup[selected_movie_title[1]]
        IN  /\ url = None <=> fresh = <<>>
            /\ fresh # <<>> =>
                  url = <<(<<"https://www.imdb.com/title/tt", fresh[1].movieID, "/reviews">>)>>

\* C11 witness: the user picked the "Alien" of 1979 (movie 1), the only
\* candidate with that label, and the locator is the one of movie 2, the
\* first result of the fresh lookup of "Alien"
C11_Witness ==
    /\ pc = "chrome"
    /\ selection_label = Some(Label(Movie(1)))
    /\ \E i, j \in DOMAIN candidates :
        /\ i # j
        /\ candidates[i].title = candidates[j].title
        /\ candidates[i].movieID # candidates[j].movieID
    /\ \A i \in DOMAIN candidates :
        Label(candidates[i]) = selection_label[1] => candidates[i].movieID = 1
    /\ url = Some(ReviewsLink(2))

====
